---- MODULE Spec2Model ----
(***************************************************************************)
(* The WebSocket audio proxy of src/proxy.py as a state machine.           *)
(*                                                                         *)
(* One WebSocketProxy object is constructed (proxy.py:361) and its bound   *)
(* method proxy_handler serves every client connection (proxy.py:357), so  *)
(* the fields set in __init__ (proxy.py:169-173) are single variables      *)
(* here, used by the pumps of every connection.  Each connection has a     *)
(* handler (proxy_handler) and two pump tasks (handle_server_messages,     *)
(* handle_client_messages).  asyncio runs one task at a time and switches  *)
(* only at an await, so an action is the code between two awaits, and the  *)
(* position of a task is named after the line it is suspended at.          *)
(*                                                                         *)
(* Audio samples are not modelled by value but by identity: sample k of    *)
(* the stream connection c decodes (or receives from its client) is the    *)
(* pair (c, k), and a stretch of samples is a run [src, from, n].          *)
(***************************************************************************)
EXTENDS Integers, Sequences, FiniteSets, TLC

(***************************************************************************)
(* Bounds of the model                                                     *)
(***************************************************************************)
\* client connections
MaxConn == 2
\* frames that arrive, on all connections together, in Spec and SpecFair
MaxFrames == 1
\* frames that arrive, on all connections together, in SpecPair
MaxPairFrames == 2
\* upstream frames of the one bridge of SpecIn: texts, frames the decoder
\* accepts (25 frames of 640 samples fill the buffer to exactly 44 + 32000
\* bytes, 17 frames of 960 samples to 32684), frames it does not
MaxUpText == 3
MaxUpBin == 26
MaxUpBad == 1
\* client frames of the one bridge of SpecOut: texts, frames of samples,
\* frames without samples
MaxClText == 2
MaxClBin == 4
MaxClBad == 1

(***************************************************************************)
(* Program constants                                                       *)
(***************************************************************************)
HeaderSize == 44
FlushSize == 32044
FrameSamples == 960
buffer_size == 960

Conns == 1..MaxConn

\* the sample counts decode(message, 960) returns for the frames of an upstream
\* that encodes 60 ms frames, or 40 ms frames, at 16 kHz
DecodedSizes == {FrameSamples, 640}

(***************************************************************************)
(* Bytes                                                                   *)
(***************************************************************************)
RECURSIVE Pow256(_)
Pow256(k) == IF k = 0 THEN 1 ELSE 256 * Pow256(k - 1)

\* int.to_bytes(w, 'little') for 0 <= v < 256^w
to_bytes(v, w) == [i \in 1..w |-> (v \div Pow256(i - 1)) % 256]

RECURSIVE FromLE(_)
\* the integer a little-endian byte string denotes
FromLE(b) == IF b = <<>> THEN 0 ELSE b[1] + 256 * FromLE(Tail(b))

Riff == <<82, 73, 70, 70>>
Wave == <<87, 65, 86, 69>>
Fmt == <<102, 109, 116, 32>>
Data == <<100, 97, 116, 97>>

create_wav_header(total_samples) ==
    Riff \o to_bytes(total_samples * 2 + 36, 4) \o Wave
      \o Fmt \o to_bytes(16, 4) \o to_bytes(1, 2) \o to_bytes(1, 2)
      \o to_bytes(16000, 4) \o to_bytes(32000, 4) \o to_bytes(2, 2) \o to_bytes(16, 2)
      \o Data \o to_bytes(total_samples * 2, 4)

(***************************************************************************)
(* The container buffer (a bytearray): a sequence of segments, each either *)
(* literal bytes or the 16-bit PCM of a run of decoded samples.            *)
(***************************************************************************)
BytesSeg(b) == [kind |-> "bytes", bytes |-> b, src |-> 0, from |-> 0, n |-> 0]
PcmSeg(c, f, k) == [kind |-> "pcm", bytes |-> <<>>, src |-> c, from |-> f, n |-> k]

SegLen(s) == IF s.kind = "pcm" THEN 2 * s.n ELSE Len(s.bytes)

RECURSIVE BufLen(_)
\* len(bytearray)
BufLen(b) == IF b = <<>> THEN 0 ELSE SegLen(b[1]) + BufLen(Tail(b))

\* bytearray.extend: adjacent literal bytes, and adjacent runs that continue
\* one another, are one segment
Extend(b, s) ==
    IF b = <<>> THEN <<s>>
    ELSE LET l == b[Len(b)] IN
         IF l.kind = "bytes" /\ s.kind = "bytes"
         THEN [b EXCEPT ![Len(b)] = BytesSeg(l.bytes \o s.bytes)]
         ELSE IF l.kind = "pcm" /\ s.kind = "pcm" /\ l.src = s.src /\ l.from + l.n = s.from
         THEN [b EXCEPT ![Len(b)] = PcmSeg(l.src, l.from, l.n + s.n)]
         ELSE Append(b, s)

\* b[lo:hi] = v with len(v) = hi - lo.  Inside leading literal bytes the bytes
\* are replaced; elsewhere the assignment overwrites sample data, which the
\* first segment then records.
SliceAssign(b, lo, hi, v) ==
    IF b # <<>> /\ b[1].kind = "bytes" /\ Len(b[1].bytes) >= hi
    THEN [b EXCEPT ![1] = BytesSeg([i \in 1..Len(b[1].bytes) |->
                                     IF i > lo /\ i <= hi THEN v[i - lo] ELSE b[1].bytes[i]])]
    ELSE IF b = <<>> THEN <<BytesSeg(v)>>
    ELSE [b EXCEPT ![1] = [@ EXCEPT !.kind = "overwritten"]]

\* b[44:] of a buffer that starts with the 44 literal bytes of a header
Payload(b) == IF b = <<>> THEN <<>> ELSE Tail(b)

RECURSIVE ExtendAll(_, _)
\* bytearray.extend of b with each segment of segs in turn
ExtendAll(b, segs) ==
    IF segs = <<>> THEN b ELSE ExtendAll(Extend(b, segs[1]), Tail(segs))

\* bytes lo+1..hi of a buffer that starts with at least hi literal bytes
Slice(b, lo, hi) == SubSeq(b[1].bytes, lo + 1, hi)

PatchHeaderDataOnly(b, total) ==
    SliceAssign(b, 40, 44, to_bytes(total * 2, 4))

\* proxy.py:236-239, 252-255, 290-293: rewrite the two length fields
PatchHeader(b, total) ==
    SliceAssign(SliceAssign(b, 4, 8, to_bytes(total * 2 + 36, 4)),
                40, 44, to_bytes(total * 2, 4))

(***************************************************************************)
(* Text frames and json.loads                                              *)
(***************************************************************************)
TtsStart == "{\"type\":\"tts\",\"state\":\"start\"}"
TtsStop == "{\"type\":\"tts\",\"state\":\"stop\"}"
UpOther == "{\"type\":\"llm\",\"emotion\":\"happy\"}"
UpNoType == "{\"state\":\"start\"}"
UpArray == "[1]"
UpBad == "{\"type\":\"tts\""
UpTexts == {TtsStart, TtsStop, UpOther, UpNoType, UpArray, UpBad}

ClReset == "{\"type\":\"reset\"}"
ClGetLast == "{\"type\":\"getLastData\"}"
ClOther == "{\"type\":\"listen\",\"state\":\"start\"}"
ClNoType == "{}"
ClNumber == "7"
ClBad == "reset"
ClTexts == {ClReset, ClGetLast, ClOther, ClNoType, ClNumber, ClBad}

\* json.dumps({'type': 'lastData'})
LastDataText == "{\"type\": \"lastData\"}"

Json(err, dict, type, state) == [err |-> err, dict |-> dict, type |-> type, state |-> state]

\* json.loads on the texts above: err is JSONDecodeError, dict says whether the
\* value is an object (the only JSON value with a .get), type and state are
\* what .get('type') and .get('state') return ("None" when absent)
json_loads(m) ==
    CASE m = TtsStart -> Json(FALSE, TRUE, "tts", "start")
      [] m = TtsStop -> Json(FALSE, TRUE, "tts", "stop")
      [] m = UpOther -> Json(FALSE, TRUE, "llm", "None")
      [] m = UpNoType -> Json(FALSE, TRUE, "None", "start")
      [] m = UpArray -> Json(FALSE, FALSE, "None", "None")
      [] m = UpBad -> Json(TRUE, FALSE, "None", "None")
      [] m = ClReset -> Json(FALSE, TRUE, "reset", "None")
      [] m = ClGetLast -> Json(FALSE, TRUE, "getLastData", "None")
      [] m = ClOther -> Json(FALSE, TRUE, "listen", "start")
      [] m = ClNoType -> Json(FALSE, TRUE, "None", "None")
      [] m = ClNumber -> Json(FALSE, FALSE, "None", "None")
      [] m = ClBad -> Json(TRUE, FALSE, "None", "None")
      [] m = LastDataText -> Json(FALSE, TRUE, "lastData", "None")

(***************************************************************************)
(* State                                                                   *)
(***************************************************************************)
VARIABLES
    audio_buffer,    \* self.audio_buffer
    is_first_audio,  \* self.is_first_audio
    total_samples,   \* self.total_samples
    decoder,         \* self.decoder: the identity of the Decoder object
    decoders_made,   \* how many Decoder objects were constructed so far
    ap_buffer,       \* self.audio_processor.buffer: runs of pending samples
    hpc,             \* per connection: position of proxy_handler
    inpc,            \* per connection: position of handle_server_messages
    outpc,           \* per connection: position of handle_client_messages
    inMsg,           \* the frame handle_server_messages took last
    outMsg,          \* the frame handle_client_messages took last
    upTaken,         \* how many frames handle_server_messages has taken
    clTaken,         \* how many frames handle_client_messages has taken
    inSent,          \* send calls made while handling inMsg
    outSent,         \* send calls made while handling outMsg
    inLast,          \* how the last send of handle_server_messages ended
    outLast,         \* how the last send of handle_client_messages ended
    chunks,          \* the chunks handle_client_messages still iterates over
    encCalls,        \* pcm_to_opus calls made while handling outMsg
    upLeft,          \* upstream frames still to arrive: [text, bin, bad]
    clLeft,          \* client frames still to arrive: [text, bin, bad]
    left,            \* frames still to arrive on all connections together
    upNext,          \* identity of the next sample decoded on a connection
    upFrame,         \* samples in each frame the upstream of a connection encodes
    clNext,          \* identity of the next sample a client sends
    clientWs,        \* per connection: the client socket
    serverWs,        \* per connection: the upstream socket
    scen,            \* observer of the start / frames / stop sequence
    delivered,       \* observer of the containers whose send to the client returned
    epoch            \* observer of the chunker since it was last empty

vars == <<audio_buffer, is_first_audio, total_samples, decoder, decoders_made,
          ap_buffer, hpc, inpc, outpc, inMsg, outMsg, upTaken, clTaken,
          inSent, outSent, inLast, outLast, chunks,
          encCalls, upLeft, clLeft, left, upNext, upFrame, clNext, clientWs, serverWs, scen,
          delivered, epoch>>

inboundState == <<audio_buffer, is_first_audio, total_samples, decoder, decoders_made>>
handlerVars == <<hpc, clientWs, serverWs>>
inLocal == <<inpc, inMsg, upTaken, inSent, inLast, upLeft, upNext, scen, delivered>>
envVars == <<upFrame>>
outLocal == <<outpc, outMsg, clTaken, outSent, outLast, chunks, encCalls, clLeft, clNext, epoch>>

NoMsg == [kind |-> "none", text |-> "", outcome |-> "none", n |-> 0]
TextMsg(m) == [kind |-> "text", text |-> m, outcome |-> "none", n |-> 0]
BinMsg(o, k) == [kind |-> "bin", text |-> "", outcome |-> o, n |-> k]
\* frames still to arrive: text frames, binary frames the codec accepts,
\* binary frames it does not
Budget(t, b, x) == [text |-> t, bin |-> b, bad |-> x]
\* a budget that is not counted
Uncounted == 0 - 1
Spend(n) == IF n = Uncounted THEN n ELSE n - 1
Draws(msg) ==
    IF msg.kind = "text" THEN "text"
    ELSE IF msg.outcome \in {"pcm", "float"} THEN "bin" ELSE "bad"

\* a call of send(): st is "pending" while the call is awaited, then "ok" or
\* "failed" (the call raised)
SendCall(to, kind, data) == [to |-> to, kind |-> kind, data |-> data, st |-> "pending"]
Finish(log, st) == [log EXCEPT ![Len(log)].st = st]

\* the positions at which a pump handles no frame: the record of the calls
\* made for a frame is kept only while the frame is handled
Idle == {"idle", "recv229", "recv310", "done", "cancelling", "cancelled"}

NoScen == [phase |-> "none", K |-> 0, bin |-> 0, frame |-> <<>>]

\* WebSocketProxy.__init__, proxy.py:169-173
ProxyInit ==
    /\ audio_buffer = <<>>
    /\ is_first_audio = TRUE
    /\ total_samples = 0
    /\ decoder = 1
    /\ decoders_made = 1
    /\ ap_buffer = <<>>

IdleInit ==
    /\ inMsg = [c \in Conns |-> NoMsg]
    /\ outMsg = [c \in Conns |-> NoMsg]
    /\ upTaken = [c \in Conns |-> 0]
    /\ clTaken = [c \in Conns |-> 0]
    /\ inSent = [c \in Conns |-> <<>>]
    /\ outSent = [c \in Conns |-> <<>>]
    /\ inLast = [c \in Conns |-> "none"]
    /\ outLast = [c \in Conns |-> "none"]
    /\ chunks = [c \in Conns |-> <<>>]
    /\ encCalls = [c \in Conns |-> <<>>]
    /\ upNext = [c \in Conns |-> 0]
    /\ clNext = [c \in Conns |-> 0]
    /\ scen = [c \in Conns |-> NoScen]
    /\ delivered = [c \in Conns |-> [payload |-> <<>>, failed |-> FALSE]]
    /\ epoch = [c \in Conns |-> [from |-> 0, calls |-> 0, emitted |-> <<>>]]

(***************************************************************************)
(* The observer of one {tts,start}, K decoded frames, {tts,stop} sequence: *)
(* it opens at a start that finds the container buffer empty, counts the   *)
(* frames decoded to FrameSamples samples and the binary frames sent, and  *)
(* closes when the handling of the stop has finished.  Uncounted other frame     *)
(* ends the observation.                                                   *)
(***************************************************************************)
ScenRecv(s, msg, empty) ==
    IF msg = TextMsg(TtsStart)
    THEN IF empty THEN [phase |-> "open", K |-> 0, bin |-> 0, frame |-> <<>>] ELSE NoScen
    ELSE IF s.phase = "open" /\ msg = BinMsg("pcm", FrameSamples)
    THEN [s EXCEPT !.K = @ + 1]
    ELSE IF s.phase = "open" /\ msg = TextMsg(TtsStop)
    THEN [s EXCEPT !.phase = "stopping"]
    ELSE NoScen

RECURSIVE ScenCalls(_, _)
ScenCalls(s, calls) ==
    IF calls = <<>> THEN s
    ELSE ScenCalls(IF s.phase \in {"open", "stopping"} /\ calls[1].kind = "binary"
                   THEN [s EXCEPT !.bin = @ + 1, !.frame = calls[1].data]
                   ELSE s,
                   Tail(calls))

ScenEnd(s, pc2) ==
    IF s.phase = "stopping" /\ pc2 = "recv229" THEN [s EXCEPT !.phase = "closed"] ELSE s

(***************************************************************************)
(* handle_server_messages, proxy.py:226-305                                *)
(***************************************************************************)
\* what the client of a connection has got when the send call `call` has
\* returned (st = "ok") or raised: the sample data of the containers whose
\* send returned, in the order of the sends, and whether a send raised
Delivered(d, call, st) ==
    IF st = "failed" THEN [d EXCEPT !.failed = TRUE]
    ELSE IF call.kind = "binary" THEN [d EXCEPT !.payload = ExtendAll(@, Payload(call.data))]
    ELSE d

\* the next frame of `async for message in server_ws` (229) is msg; the code
\* runs to its next await, pc2, having made the send calls `calls`
InReceive(c, msg, pc2, calls) ==
    /\ inpc[c] = "recv229"
    /\ upLeft[c][Draws(msg)] # 0 /\ left # 0
    /\ upLeft' = [upLeft EXCEPT ![c][Draws(msg)] = Spend(@)]
    /\ left' = Spend(left)
    /\ inMsg' = [inMsg EXCEPT ![c] = msg]
    /\ upTaken' = [upTaken EXCEPT ![c] = @ + 1]
    /\ inSent' = [inSent EXCEPT ![c] = calls]
    /\ inLast' = [inLast EXCEPT ![c] = "none"]
    /\ inpc' = [inpc EXCEPT ![c] = pc2]
    /\ scen' = [scen EXCEPT ![c] =
                  ScenEnd(ScenCalls(ScenRecv(@, msg, audio_buffer = <<>>), calls), pc2)]
    /\ UNCHANGED delivered

\* the send awaited at pc1 returns (st = "ok") or raises (st = "failed"); the
\* code runs to its next await, pc2, making the send calls `calls`
InResume(c, pc1, st, pc2, calls) ==
    /\ inpc[c] = pc1
    /\ inSent' = [inSent EXCEPT ![c] = IF pc2 \in Idle THEN <<>> ELSE Finish(@, st) \o calls]
    /\ inLast' = [inLast EXCEPT ![c] = st]
    /\ inpc' = [inpc EXCEPT ![c] = pc2]
    /\ scen' = [scen EXCEPT ![c] = ScenEnd(ScenCalls(@, calls), pc2)]
    /\ delivered' = [delivered EXCEPT ![c] = Delivered(@, inSent[c][Len(inSent[c])], st)]
    /\ UNCHANGED <<inMsg, upTaken, upLeft, left, upNext>>

\* proxy.py:243-246 and 262-265
ResetAudioState ==
    /\ audio_buffer' = <<>>
    /\ is_first_audio' = TRUE
    /\ total_samples' = 0
    /\ decoder' = decoders_made + 1
    /\ decoders_made' = decoders_made + 1

ResetBufferNewDecoder ==
    /\ audio_buffer' = <<>>
    /\ is_first_audio' = TRUE
    /\ total_samples' = 0
    /\ decoder' = decoders_made + 1
    /\ decoders_made' = decoders_made + 1

\* proxy.py:299-301
ResetBuffer ==
    /\ audio_buffer' = <<>>
    /\ is_first_audio' = TRUE
    /\ total_samples' = 0
    /\ UNCHANGED <<decoder, decoders_made>>

InMalformedDrop(c) ==
    \E m \in UpTexts :
        /\ json_loads(m).err
        /\ InReceive(c, TextMsg(m), "recv229", <<>>)
        /\ UNCHANGED <<inboundState, ap_buffer, handlerVars, outLocal, envVars, upNext>>

\* 231-232, 268-269: json.loads raises JSONDecodeError, the text is forwarded
InMalformed(c) ==
    \E m \in UpTexts :
        /\ json_loads(m).err
        /\ InReceive(c, TextMsg(m), "send269", <<SendCall("client", "text", m)>>)
        /\ UNCHANGED <<inboundState, ap_buffer, handlerVars, outLocal, envVars, upNext>>

\* 233: msg_data is no dict, msg_data.get raises AttributeError, which only
\* the handler of 304 catches: the pump returns
InNonObject(c) ==
    \E m \in UpTexts :
        /\ ~json_loads(m).err /\ ~json_loads(m).dict
        /\ InReceive(c, TextMsg(m), "done", <<>>)
        /\ UNCHANGED <<inboundState, ap_buffer, handlerVars, outLocal, envVars, upNext>>

\* 233-246
InTtsStart(c) ==
    LET j == json_loads(TtsStart) IN
    /\ ~j.err /\ j.dict /\ j.type = "tts" /\ j.state = "start"
    /\ IF BufLen(audio_buffer) > HeaderSize
       THEN /\ audio_buffer' = PatchHeader(audio_buffer, total_samples)
            /\ InReceive(c, TextMsg(TtsStart), "send240",
                         <<SendCall("client", "binary", audio_buffer')>>)
            /\ UNCHANGED <<is_first_audio, total_samples, decoder, decoders_made>>
       ELSE /\ ResetAudioState
            /\ InReceive(c, TextMsg(TtsStart), "send267",
                         <<SendCall("client", "text", TtsStart)>>)
    /\ UNCHANGED <<ap_buffer, handlerVars, outLocal, envVars, upNext>>

\* 240-246, 267: the flush of 240 returns or raises
InSend240(c) ==
    \/ /\ ResetAudioState
       /\ InResume(c, "send240", "ok", "send267",
                   <<SendCall("client", "text", inMsg[c].text)>>)
       /\ UNCHANGED <<ap_buffer, handlerVars, outLocal, envVars>>
    \/ /\ InResume(c, "send240", "failed", "done", <<>>)
       /\ UNCHANGED <<inboundState, ap_buffer, handlerVars, outLocal, envVars>>

\* 248-256, 267
InTtsStop(c) ==
    LET j == json_loads(TtsStop) IN
    /\ ~j.err /\ j.dict /\ j.type = "tts" /\ j.state = "stop"
    /\ IF BufLen(audio_buffer) > HeaderSize
       THEN /\ audio_buffer' = PatchHeader(audio_buffer, total_samples)
            /\ InReceive(c, TextMsg(TtsStop), "send256",
                         <<SendCall("client", "binary", audio_buffer')>>)
       ELSE /\ InReceive(c, TextMsg(TtsStop), "send267",
                         <<SendCall("client", "text", TtsStop)>>)
            /\ UNCHANGED audio_buffer
    /\ UNCHANGED <<is_first_audio, total_samples, decoder, decoders_made,
                   ap_buffer, handlerVars, outLocal, envVars, upNext>>

\* 256, 259: the flush of 256 returns (then asyncio.sleep(0.1)) or raises
InSend256(c) ==
    /\ \/ InResume(c, "send256", "ok", "sleep259", <<>>)
       \/ InResume(c, "send256", "failed", "done", <<>>)
    /\ UNCHANGED <<inboundState, ap_buffer, handlerVars, outLocal, envVars>>

InSleep259ResetsChunker(c) ==
    /\ inpc[c] = "sleep259"
    /\ ResetAudioState
    /\ ap_buffer' = <<>>
    /\ inSent' = [inSent EXCEPT ![c] = Append(@, SendCall("client", "text", inMsg[c].text))]
    /\ inpc' = [inpc EXCEPT ![c] = "send267"]
    /\ UNCHANGED <<inMsg, upTaken, inLast, upLeft, upNext, scen, delivered,
                   handlerVars, outLocal, envVars, left>>

\* 259-267: the sleep is over
InSleep259(c) ==
    /\ inpc[c] = "sleep259"
    /\ ResetAudioState
    /\ inSent' = [inSent EXCEPT ![c] = Append(@, SendCall("client", "text", inMsg[c].text))]
    /\ inpc' = [inpc EXCEPT ![c] = "send267"]
    /\ UNCHANGED <<inMsg, upTaken, inLast, upLeft, upNext, scen, delivered, ap_buffer,
                   handlerVars, outLocal, envVars, left>>

\* 233, 248, 267: an object that is neither {tts,start} nor {tts,stop}
InOtherText(c) ==
    \E m \in UpTexts :
        LET j == json_loads(m) IN
        /\ ~j.err /\ j.dict
        /\ ~(j.type = "tts" /\ j.state = "start")
        /\ ~(j.type = "tts" /\ j.state = "stop")
        /\ InReceive(c, TextMsg(m), "send267", <<SendCall("client", "text", m)>>)
        /\ UNCHANGED <<inboundState, ap_buffer, handlerVars, outLocal, envVars, upNext>>

\* 267: the forward returns, or raises (only the handler of 304 catches it)
InSend267(c) ==
    /\ \/ InResume(c, "send267", "ok", "recv229", <<>>)
       \/ InResume(c, "send267", "failed", "done", <<>>)
    /\ UNCHANGED <<inboundState, ap_buffer, handlerVars, outLocal, envVars>>

\* 269: the same for the forward of a text that is no JSON
InSend269(c) ==
    /\ \/ InResume(c, "send269", "ok", "recv229", <<>>)
       \/ InResume(c, "send269", "failed", "done", <<>>)
    /\ UNCHANGED <<inboundState, ap_buffer, handlerVars, outLocal, envVars>>

InDecodeErrorEnds(c) ==
    /\ InReceive(c, BinMsg("error", 0), "done", <<>>)
    /\ UNCHANGED <<inboundState, ap_buffer, handlerVars, outLocal, envVars, upNext>>

\* 271-273, 302-303: self.decoder.decode raises, the frame is dropped
InDecodeError(c) ==
    /\ InReceive(c, BinMsg("error", 0), "recv229", <<>>)
    /\ UNCHANGED <<inboundState, ap_buffer, handlerVars, outLocal, envVars, upNext>>

\* 273-274: decode returns no data
InDecodeEmpty(c) ==
    /\ InReceive(c, BinMsg("empty", 0), "recv229", <<>>)
    /\ UNCHANGED <<inboundState, ap_buffer, handlerVars, outLocal, envVars, upNext>>

AppendDecodedNoHeader(b, first, total, c, f, k) ==
    Extend(b, PcmSeg(c, f, k))

\* 276-285: buffer b after k decoded samples, f.. of connection c, are counted
\* and appended
AppendDecoded(b, first, total, c, f, k) ==
    Extend(IF first THEN Extend(b, BytesSeg(create_wav_header(total + k))) ELSE b,
           PcmSeg(c, f, k))

Appended(c, k) ==
    AppendDecoded(audio_buffer, is_first_audio, total_samples, c, upNext[c], k)

\* 288
FlushDue(b) == BufLen(b) >= FlushSize

\* 273-296: decode returns k = len(pcm_data) // 2 samples
InDecoded(c) ==
    \E k \in {upFrame[c]} :
        /\ total_samples' = total_samples + k
        /\ is_first_audio' = FALSE
        /\ upNext' = [upNext EXCEPT ![c] = @ + k]
        /\ IF FlushDue(Appended(c, k))
           THEN /\ audio_buffer' = PatchHeader(Appended(c, k), total_samples')
                /\ InReceive(c, BinMsg("pcm", k), "send296",
                             <<SendCall("client", "binary", audio_buffer')>>)
           ELSE /\ audio_buffer' = Appended(c, k)
                /\ InReceive(c, BinMsg("pcm", k), "recv229", <<>>)
        /\ UNCHANGED <<decoder, decoders_made, ap_buffer, handlerVars, outLocal, envVars>>

InSend296OkNoReset(c) ==
    /\ UNCHANGED inboundState
    /\ InResume(c, "send296", "ok", "recv229", <<>>)

InSend296Ok(c) ==
    /\ ResetBuffer
    /\ InResume(c, "send296", "ok", "recv229", <<>>)

\* 296-303: the flush returns, or raises and the handler of 302 drops the frame
InSend296(c) ==
    /\ \/ InSend296Ok(c)
       \/ /\ InResume(c, "send296", "failed", "recv229", <<>>)
          /\ UNCHANGED inboundState
    /\ UNCHANGED <<ap_buffer, handlerVars, outLocal, envVars>>

\* 229: the upstream connection is closed, the iteration ends (or raises
\* ConnectionClosedError, caught at 304): the pump returns
InClosed(c) ==
    /\ inpc[c] = "recv229"
    /\ inpc' = [inpc EXCEPT ![c] = "done"]
    /\ UNCHANGED <<inboundState, ap_buffer, handlerVars, outLocal, envVars, left,
                   inMsg, upTaken, inSent, inLast, upLeft, upNext, scen, delivered>>

Inbound(c) ==
    \/ InMalformed(c)
    \/ InNonObject(c)
    \/ InTtsStart(c)
    \/ InSend240(c)
    \/ InTtsStop(c)
    \/ InSend256(c)
    \/ InSleep259(c)
    \/ InOtherText(c)
    \/ InSend267(c)
    \/ InSend269(c)
    \/ InDecodeError(c)
    \/ InDecodeEmpty(c)
    \/ InDecoded(c)
    \/ InSend296(c)
    \/ InClosed(c)

(***************************************************************************)
(* AudioProcessor, proxy.py:116-151.  The pending buffer is a sequence of  *)
(* runs of client samples.                                                 *)
(***************************************************************************)
Run(c, f, k) == [src |-> c, from |-> f, n |-> k]

RECURSIVE RunsLen(_)
\* len(array)
RunsLen(r) == IF r = <<>> THEN 0 ELSE r[1].n + RunsLen(Tail(r))

\* one more run at the end; a run that continues the last one is merged
RunsAdd(r, x) ==
    IF x.n = 0 THEN r
    ELSE IF r # <<>> /\ r[Len(r)].src = x.src /\ r[Len(r)].from + r[Len(r)].n = x.from
    THEN [r EXCEPT ![Len(r)].n = @ + x.n]
    ELSE Append(r, x)

RECURSIVE RunsCat(_, _)
\* np.append(a, b)
RunsCat(a, b) == IF b = <<>> THEN a ELSE RunsCat(RunsAdd(a, b[1]), Tail(b))

RECURSIVE RunsTake(_, _)
\* array[:k]
RunsTake(r, k) ==
    IF k = 0 \/ r = <<>> THEN <<>>
    ELSE IF r[1].n <= k THEN <<r[1]>> \o RunsTake(Tail(r), k - r[1].n)
    ELSE <<Run(r[1].src, r[1].from, k)>>

RECURSIVE RunsDrop(_, _)
\* array[k:]
RunsDrop(r, k) ==
    IF k = 0 \/ r = <<>> THEN r
    ELSE IF r[1].n <= k THEN RunsDrop(Tail(r), k - r[1].n)
    ELSE <<Run(r[1].src, r[1].from + k, r[1].n - k)>> \o Tail(r)

\* (samples * 32767).astype(np.int16).tobytes(): the 16-bit PCM of the samples
Pcm16(r) == [fmt |-> "s16le", samples |-> r]

\* what pcm_to_opus returns for a chunk it encodes (proxy.py:63-75)
Opus(chunk) == [fmt |-> "opus", samples |-> chunk.samples]

SliceChunksOnce(buf, size) ==
    IF RunsLen(buf) >= size
    THEN [chunks |-> <<Pcm16(RunsTake(buf, size))>>, buffer |-> RunsDrop(buf, size)]
    ELSE [chunks |-> <<>>, buffer |-> buf]

RECURSIVE SliceChunks(_, _)
\* proxy.py:132-143: the while loop of process_audio
SliceChunks(buf, size) ==
    IF RunsLen(buf) >= size
    THEN LET rest == SliceChunks(RunsDrop(buf, size), size) IN
         [chunks |-> <<Pcm16(RunsTake(buf, size))>> \o rest.chunks, buffer |-> rest.buffer]
    ELSE [chunks |-> <<>>, buffer |-> buf]

\* AudioProcessor.process_audio, proxy.py:125-143
process_audio(buf, input) == SliceChunks(RunsCat(buf, input), buffer_size)

process_remaining_kept(buf) ==
    IF RunsLen(buf) > 0
    THEN [chunks |-> <<Pcm16(buf)>>, buffer |-> buf]
    ELSE [chunks |-> <<>>, buffer |-> buf]

\* AudioProcessor.process_remaining, proxy.py:145-151
process_remaining(buf) ==
    IF RunsLen(buf) > 0
    THEN [chunks |-> <<Pcm16(buf)>>, buffer |-> <<>>]
    ELSE [chunks |-> <<>>, buffer |-> buf]

\* AudioProcessor.reset_buffer, proxy.py:122-123
reset_buffer(buf) == <<>>

\* the sample counts of the binary frames a client sends
ClientSizes == {480, 960, 1440}

(***************************************************************************)
(* handle_client_messages, proxy.py:307-348                                *)
(***************************************************************************)
NewEpoch(f) == [from |-> f, calls |-> 0, emitted |-> <<>>]

RECURSIVE AllSamples(_)
\* the samples of a list of chunks, in order
AllSamples(chs) == IF chs = <<>> THEN <<>> ELSE RunsCat(chs[1].samples, AllSamples(Tail(chs)))

\* the next frame of `async for message in client_ws` (310) is msg
OutReceive(c, msg, pc2, calls, encs) ==
    /\ outpc[c] = "recv310"
    /\ clLeft[c][Draws(msg)] # 0 /\ left # 0
    /\ clLeft' = [clLeft EXCEPT ![c][Draws(msg)] = Spend(@)]
    /\ left' = Spend(left)
    /\ outMsg' = [outMsg EXCEPT ![c] = msg]
    /\ clTaken' = [clTaken EXCEPT ![c] = @ + 1]
    /\ outSent' = [outSent EXCEPT ![c] = calls]
    /\ outLast' = [outLast EXCEPT ![c] = "none"]
    /\ encCalls' = [encCalls EXCEPT ![c] = IF pc2 \in Idle THEN <<>> ELSE encs]
    /\ outpc' = [outpc EXCEPT ![c] = pc2]

\* the send awaited at pc1 returns or raises
OutResume(c, pc1, st, pc2, calls, encs) ==
    /\ outpc[c] = pc1
    /\ outSent' = [outSent EXCEPT ![c] = IF pc2 \in Idle THEN <<>> ELSE Finish(@, st) \o calls]
    /\ outLast' = [outLast EXCEPT ![c] = st]
    /\ encCalls' = [encCalls EXCEPT ![c] = IF pc2 \in Idle THEN <<>> ELSE @ \o encs]
    /\ outpc' = [outpc EXCEPT ![c] = pc2]
    /\ UNCHANGED <<outMsg, clTaken, clLeft, left, clNext>>

\* 312-313, 327-328: json.loads raises JSONDecodeError, the text is forwarded
OutMalformed(c) ==
    \E m \in ClTexts :
        /\ json_loads(m).err
        /\ OutReceive(c, TextMsg(m), "send328", <<SendCall("server", "text", m)>>, <<>>)
        /\ UNCHANGED <<inboundState, ap_buffer, handlerVars, inLocal, envVars,
                       chunks, clNext, epoch>>

\* 314: msg_data is no dict, msg_data.get raises AttributeError, which only
\* the handler of 347 catches: the pump returns
OutNonObject(c) ==
    \E m \in ClTexts :
        /\ ~json_loads(m).err /\ ~json_loads(m).dict
        /\ OutReceive(c, TextMsg(m), "done", <<>>, <<>>)
        /\ UNCHANGED <<inboundState, ap_buffer, handlerVars, inLocal, envVars,
                       chunks, clNext, epoch>>

OutResetAll(c) ==
    /\ json_loads(ClReset).type = "reset"
    /\ ap_buffer' = reset_buffer(ap_buffer)
    /\ audio_buffer' = <<>>
    /\ OutReceive(c, TextMsg(ClReset), "recv310", <<>>, <<>>)
    /\ epoch' = [epoch EXCEPT ![c] = NewEpoch(clNext[c])]
    /\ UNCHANGED <<is_first_audio, total_samples, decoder, decoders_made,
                   handlerVars, inLocal, envVars, chunks, clNext>>

\* 314-315
OutReset(c) ==
    /\ json_loads(ClReset).type = "reset"
    /\ ap_buffer' = reset_buffer(ap_buffer)
    /\ OutReceive(c, TextMsg(ClReset), "recv310", <<>>, <<>>)
    /\ epoch' = [epoch EXCEPT ![c] = NewEpoch(clNext[c])]
    /\ UNCHANGED <<inboundState, handlerVars, inLocal, envVars, chunks, clNext>>

\* 316-324: the remainder is encoded (pcm_to_opus returns a frame, ok, or
\* None) and sent upstream, or there is none and the acknowledgement is sent
OutGetLast(c) ==
    LET rem == process_remaining(ap_buffer) IN
    /\ json_loads(ClGetLast).type = "getLastData"
    /\ ap_buffer' = rem.buffer
    /\ \/ /\ rem.chunks # <<>>
          /\ OutReceive(c, TextMsg(ClGetLast), "send322",
                        <<SendCall("server", "binary", Opus(rem.chunks[1]))>>, rem.chunks)
       \/ OutReceive(c, TextMsg(ClGetLast), "send324",
                     <<SendCall("client", "text", LastDataText)>>, rem.chunks)
    /\ epoch' = [epoch EXCEPT ![c] = NewEpoch(clNext[c])]
    /\ UNCHANGED <<inboundState, handlerVars, inLocal, envVars, chunks, clNext>>

OutSend322SkipAck(c) ==
    /\ \/ OutResume(c, "send322", "ok", "recv310", <<>>, <<>>)
       \/ OutResume(c, "send322", "failed", "done", <<>>, <<>>)
    /\ UNCHANGED <<inboundState, ap_buffer, handlerVars, inLocal, envVars,
                   chunks, epoch>>

\* 322-324
OutSend322(c) ==
    /\ \/ OutResume(c, "send322", "ok", "send324",
                     <<SendCall("client", "text", LastDataText)>>, <<>>)
       \/ OutResume(c, "send322", "failed", "done", <<>>, <<>>)
    /\ UNCHANGED <<inboundState, ap_buffer, handlerVars, inLocal, envVars,
                   chunks, epoch>>

\* 324
OutSend324(c) ==
    /\ \/ OutResume(c, "send324", "ok", "recv310", <<>>, <<>>)
       \/ OutResume(c, "send324", "failed", "done", <<>>, <<>>)
    /\ UNCHANGED <<inboundState, ap_buffer, handlerVars, inLocal, envVars,
                   chunks, epoch>>

\* 314, 316, 325-326: an object that is neither reset nor getLastData
OutOtherText(c) ==
    \E m \in ClTexts :
        LET j == json_loads(m) IN
        /\ ~j.err /\ j.dict /\ j.type # "reset" /\ j.type # "getLastData"
        /\ OutReceive(c, TextMsg(m), "send326", <<SendCall("server", "text", m)>>, <<>>)
        /\ UNCHANGED <<inboundState, ap_buffer, handlerVars, inLocal, envVars,
                       chunks, clNext, epoch>>

\* 326
OutSend326(c) ==
    /\ \/ OutResume(c, "send326", "ok", "recv310", <<>>, <<>>)
       \/ OutResume(c, "send326", "failed", "done", <<>>, <<>>)
    /\ UNCHANGED <<inboundState, ap_buffer, handlerVars, inLocal, envVars,
                   chunks, epoch>>

\* 328
OutSend328(c) ==
    /\ \/ OutResume(c, "send328", "ok", "recv310", <<>>, <<>>)
       \/ OutResume(c, "send328", "failed", "done", <<>>, <<>>)
    /\ UNCHANGED <<inboundState, ap_buffer, handlerVars, inLocal, envVars,
                   chunks, epoch>>

\* 333, 345-346: the frame is no whole number of 4-byte floats, np.frombuffer
\* raises ValueError, the frame is dropped
OutRagged(c) ==
    /\ OutReceive(c, BinMsg("ragged", 0), "recv310", <<>>, <<>>)
    /\ UNCHANGED <<inboundState, ap_buffer, handlerVars, inLocal, envVars,
                   chunks, clNext, epoch>>

\* 334, 343-344: a frame of no samples
OutEmpty(c) ==
    /\ OutReceive(c, BinMsg("empty", 0), "recv310", <<>>, <<>>)
    /\ UNCHANGED <<inboundState, ap_buffer, handlerVars, inLocal, envVars,
                   chunks, clNext, epoch>>

\* 337-342: the for loop over chs up to its next await.  pcm_to_opus returns
\* None for the first f chunks and a frame for the next one, which is sent;
\* or it returns None for every chunk left (f = Len(chs)) and the loop ends.
LoopPc(chs, f) == IF f < Len(chs) THEN "send340" ELSE "recv310"
LoopCallsLast(chs, f) ==
    IF f < Len(chs) THEN <<SendCall("server", "binary", Opus(chs[Len(chs)]))>> ELSE <<>>

LoopCalls(chs, f) ==
    IF f < Len(chs) THEN <<SendCall("server", "binary", Opus(chs[f + 1]))>> ELSE <<>>
LoopEncs(chs, f) == SubSeq(chs, 1, IF f < Len(chs) THEN f + 1 ELSE Len(chs))
LoopRest(chs, f) == SubSeq(chs, f + 2, Len(chs))

\* 333-340: a frame of k float samples
OutAudio(c) ==
    \E k \in ClientSizes :
        LET r == process_audio(ap_buffer, <<Run(c, clNext[c], k)>>) IN
        \E f \in 0..Len(r.chunks) :
            /\ ap_buffer' = r.buffer
            /\ clNext' = [clNext EXCEPT ![c] = @ + k]
            /\ OutReceive(c, BinMsg("float", k), LoopPc(r.chunks, f),
                          LoopCalls(r.chunks, f), LoopEncs(r.chunks, f))
            /\ chunks' = [chunks EXCEPT ![c] = LoopRest(r.chunks, f)]
            /\ epoch' = [epoch EXCEPT ![c] =
                           [@ EXCEPT !.emitted = RunsCat(@, AllSamples(r.chunks)),
                                     !.calls = @ + Len(LoopEncs(r.chunks, f))]]
            /\ UNCHANGED <<inboundState, handlerVars, inLocal, envVars>>

\* 340, 337-342: the send returns and the loop goes on
OutSend340Ok(c) ==
    \E f \in 0..Len(chunks[c]) :
        /\ OutResume(c, "send340", "ok", LoopPc(chunks[c], f), LoopCalls(chunks[c], f),
                     LoopEncs(chunks[c], f))
        /\ chunks' = [chunks EXCEPT ![c] = LoopRest(chunks[c], f)]
        /\ epoch' = [epoch EXCEPT ![c].calls = @ + Len(LoopEncs(chunks[c], f))]

\* 340, 345-346: the send raises, the handler of 345 ends the loop
OutSend340Failed(c) ==
    /\ OutResume(c, "send340", "failed", "recv310", <<>>, <<>>)
    /\ chunks' = [chunks EXCEPT ![c] = <<>>]
    /\ UNCHANGED epoch

OutSend340(c) ==
    /\ \/ OutSend340Ok(c)
       \/ OutSend340Failed(c)
    /\ UNCHANGED <<inboundState, ap_buffer, handlerVars, inLocal, envVars>>

\* 310: the client connection is closed, the iteration ends (or raises
\* ConnectionClosedError, caught at 347): the pump returns
OutClosed(c) ==
    /\ outpc[c] = "recv310"
    /\ outpc' = [outpc EXCEPT ![c] = "done"]
    /\ UNCHANGED <<inboundState, ap_buffer, handlerVars, inLocal, envVars, left,
                   outMsg, clTaken, outSent, outLast, chunks, encCalls, clLeft, clNext, epoch>>

Outbound(c) ==
    \/ OutMalformed(c)
    \/ OutNonObject(c)
    \/ OutReset(c)
    \/ OutGetLast(c)
    \/ OutSend322(c)
    \/ OutSend324(c)
    \/ OutOtherText(c)
    \/ OutSend326(c)
    \/ OutSend328(c)
    \/ OutRagged(c)
    \/ OutEmpty(c)
    \/ OutAudio(c)
    \/ OutSend340(c)
    \/ OutClosed(c)

(***************************************************************************)
(* proxy_handler, proxy.py:200-224, called by websockets.serve for every   *)
(* client connection (proxy.py:357)                                        *)
(***************************************************************************)
Ended == {"done", "cancelled"}

\* 357, 200-204: a client connects, the handler starts and awaits the
\* connection to WS_URL
Accept(c) ==
    /\ hpc[c] = "idle"
    /\ hpc' = [hpc EXCEPT ![c] = "connect204"]
    /\ clientWs' = [clientWs EXCEPT ![c] = "open"]
    /\ UNCHANGED <<inboundState, ap_buffer, inLocal, outLocal, envVars, left, serverWs>>

\* 204-212: the upstream connection is made, both pumps are created and the
\* handler waits for the first of them to end
ConnectOk(c) ==
    /\ hpc[c] = "connect204"
    /\ hpc' = [hpc EXCEPT ![c] = "wait212"]
    /\ serverWs' = [serverWs EXCEPT ![c] = "open"]
    /\ inpc' = [inpc EXCEPT ![c] = "recv229"]
    /\ outpc' = [outpc EXCEPT ![c] = "recv310"]
    /\ UNCHANGED <<inboundState, ap_buffer, envVars, left, clientWs,
                   inMsg, upTaken, inSent, inLast, upLeft, upNext, scen, delivered,
                   outMsg, clTaken, outSent, outLast, chunks, encCalls, clLeft, clNext, epoch>>

ConnectFailWait(c) ==
    /\ hpc[c] = "connect204"
    /\ hpc' = [hpc EXCEPT ![c] = "wait212"]
    /\ UNCHANGED <<inboundState, ap_buffer, inLocal, outLocal, envVars, left, clientWs, serverWs>>

\* 204, 221-224: websockets.connect raises, the handler prints and returns
ConnectFail(c) ==
    /\ hpc[c] = "connect204"
    /\ hpc' = [hpc EXCEPT ![c] = "returned"]
    /\ UNCHANGED <<inboundState, ap_buffer, inLocal, outLocal, envVars, left, clientWs, serverWs>>

WaitDoneNoCancel(c) ==
    /\ hpc[c] = "wait212"
    /\ inpc[c] \in Ended \/ outpc[c] \in Ended
    /\ hpc' = [hpc EXCEPT ![c] = "exit204"]
    /\ UNCHANGED <<inboundState, ap_buffer, envVars, left, clientWs, serverWs,
                   inLocal, outLocal>>

\* 212-219: a pump has ended; task.cancel() on the other one, which from now
\* on can only take the CancelledError; the handler goes on to leave the
\* `async with` of 204
WaitDone(c) ==
    /\ hpc[c] = "wait212"
    /\ inpc[c] \in Ended \/ outpc[c] \in Ended
    /\ hpc' = [hpc EXCEPT ![c] = "exit204"]
    /\ inpc' = [inpc EXCEPT ![c] = IF @ \in Ended THEN @ ELSE "cancelling"]
    /\ outpc' = [outpc EXCEPT ![c] = IF @ \in Ended THEN @ ELSE "cancelling"]
    /\ UNCHANGED <<inboundState, ap_buffer, envVars, left, clientWs, serverWs,
                   inMsg, upTaken, inSent, inLast, upLeft, upNext, scen, delivered,
                   outMsg, clTaken, outSent, outLast, chunks, encCalls, clLeft, clNext, epoch>>

\* 229-305: CancelledError is raised at the await the pump is suspended at;
\* it is no Exception, so no handler of the pump catches it and the task ends
InCancelled(c) ==
    /\ inpc[c] = "cancelling"
    /\ inpc' = [inpc EXCEPT ![c] = "cancelled"]
    /\ UNCHANGED <<inboundState, ap_buffer, handlerVars, outLocal, envVars, left,
                   inMsg, upTaken, inSent, inLast, upLeft, upNext, scen, delivered>>

\* 310-348: the same for the outbound pump
OutCancelled(c) ==
    /\ outpc[c] = "cancelling"
    /\ outpc' = [outpc EXCEPT ![c] = "cancelled"]
    /\ UNCHANGED <<inboundState, ap_buffer, handlerVars, inLocal, envVars, left,
                   outMsg, clTaken, outSent, outLast, chunks, encCalls, clLeft, clNext, epoch>>

\* 204, 223-224: leaving the `async with` closes the upstream connection;
\* the handler returns
ExitConnect(c) ==
    /\ hpc[c] = "exit204"
    /\ hpc' = [hpc EXCEPT ![c] = "returned"]
    /\ serverWs' = [serverWs EXCEPT ![c] = "closed"]
    /\ UNCHANGED <<inboundState, ap_buffer, inLocal, outLocal, envVars, left, clientWs>>

\* 357: websockets.serve closes the client connection when the handler has
\* returned
ServeClose(c) ==
    /\ hpc[c] = "returned"
    /\ hpc' = [hpc EXCEPT ![c] = "closed"]
    /\ clientWs' = [clientWs EXCEPT ![c] = "closed"]
    /\ UNCHANGED <<inboundState, ap_buffer, inLocal, outLocal, envVars, left, serverWs>>

Handler(c) ==
    \/ Accept(c)
    \/ ConnectOk(c)
    \/ ConnectFail(c)
    \/ WaitDone(c)
    \/ InCancelled(c)
    \/ OutCancelled(c)
    \/ ExitConnect(c)
    \/ ServeClose(c)

(***************************************************************************)
(* One bridge, the inbound pump alone, a long upstream stream              *)
(***************************************************************************)
\* the connections of R are bridged (proxy.py:204-212 have run), the others
\* are not open
RunningInit(R, up, cl) ==
    /\ hpc = [c \in Conns |-> IF c \in R THEN "wait212" ELSE "idle"]
    /\ inpc = [c \in Conns |-> IF c \in R THEN "recv229" ELSE "idle"]
    /\ outpc = [c \in Conns |-> IF c \in R THEN "recv310" ELSE "idle"]
    /\ clientWs = [c \in Conns |-> IF c \in R THEN "open" ELSE "none"]
    /\ serverWs = [c \in Conns |-> IF c \in R THEN "open" ELSE "none"]
    /\ upLeft = [c \in Conns |-> IF c \in R THEN up ELSE Budget(0, 0, 0)]
    /\ clLeft = [c \in Conns |-> IF c \in R THEN cl ELSE Budget(0, 0, 0)]

InitIn ==
    /\ ProxyInit /\ IdleInit
    /\ upFrame \in [Conns -> DecodedSizes]
    /\ \A c \in Conns : c # 1 => upFrame[c] = FrameSamples
    /\ RunningInit({1}, Budget(MaxUpText, MaxUpBin, MaxUpBad), Budget(0, 0, 0))
    /\ left = Uncounted
NextIn == Inbound(1)
SpecIn == InitIn /\ [][NextIn]_vars

(***************************************************************************)
(* One bridge, the outbound pump alone                                     *)
(***************************************************************************)
InitOut ==
    /\ ProxyInit /\ IdleInit
    /\ upFrame = [c \in Conns |-> FrameSamples]
    /\ RunningInit({1}, Budget(0, 0, 0), Budget(MaxClText, MaxClBin, MaxClBad))
    /\ left = Uncounted
NextOut == Outbound(1)
SpecOut == InitOut /\ [][NextOut]_vars

(***************************************************************************)
(* The proxy: every connection, its handler and both its pumps.  The one   *)
(* WebSocketProxy of proxy.py:361 serves every connection (357), so what a *)
(* bridge leaves in it is what the next bridge finds.                      *)
(***************************************************************************)
\* the most 60 ms frames the container buffer holds below the flush size
EarlierFrames == (FlushSize - HeaderSize) \div (2 * FrameSamples)

RECURSIVE Streamed(_)
\* the container buffer after n frames of an earlier connection (0) were
\* decoded into an empty buffer (276-285, n times)
Streamed(n) ==
    IF n = 0 THEN <<>>
    ELSE AppendDecoded(Streamed(n - 1), n = 1, (n - 1) * FrameSamples,
                       0, (n - 1) * FrameSamples, FrameSamples)

\* the proxy as a bridge leaves it whose upstream streamed EarlierFrames
\* frames and was closed before a {tts,stop}, and whose client sent half a
\* chunk (125-143 with 480 samples)
EarlierInit ==
    /\ audio_buffer = Streamed(EarlierFrames)
    /\ is_first_audio = FALSE
    /\ total_samples = EarlierFrames * FrameSamples
    /\ decoder = 1
    /\ decoders_made = 1
    /\ ap_buffer = process_audio(<<>>, <<Run(0, 0, buffer_size \div 2)>>).buffer

Init ==
    /\ ProxyInit \/ EarlierInit
    /\ IdleInit
    /\ upFrame = [c \in Conns |-> FrameSamples]
    /\ hpc = [c \in Conns |-> "idle"]
    /\ inpc = [c \in Conns |-> "idle"]
    /\ outpc = [c \in Conns |-> "idle"]
    /\ clientWs = [c \in Conns |-> "none"]
    /\ serverWs = [c \in Conns |-> "none"]
    /\ upLeft = [c \in Conns |-> Budget(Uncounted, Uncounted, Uncounted)]
    /\ clLeft = [c \in Conns |-> Budget(Uncounted, Uncounted, Uncounted)]
    /\ left = MaxFrames
Next == \E c \in Conns : Handler(c) \/ Inbound(c) \/ Outbound(c)
Spec == Init /\ [][Next]_vars

(***************************************************************************)
(* Every connection bridged at the same time, the pumps alone              *)
(***************************************************************************)
InitPair ==
    /\ ProxyInit \/ EarlierInit
    /\ IdleInit
    /\ upFrame = [c \in Conns |-> FrameSamples]
    /\ RunningInit(Conns, Budget(Uncounted, Uncounted, Uncounted),
                   Budget(Uncounted, Uncounted, Uncounted))
    /\ left = MaxPairFrames
NextPair == \E c \in Conns : Inbound(c) \/ Outbound(c)
SpecPair == InitPair /\ [][NextPair]_vars

(***************************************************************************)
(* The proxy under the scheduling of asyncio and of websockets: an await   *)
(* of proxy_handler that can complete does complete (connect and close are *)
(* bounded by open_timeout and close_timeout, asyncio.wait returns when a  *)
(* task is done, a cancelled task is resumed by the event loop, serve      *)
(* closes the connection of a handler that returned).                      *)
(***************************************************************************)
SpecFair == Spec /\ \A c \in Conns : WF_vars(Handler(c))

(***************************************************************************)
(* Claims                                                                  *)
(***************************************************************************)

\* C1: when the inbound pump has handled {tts,start} (arriving at an empty
\* container buffer), K frames decoded to 960 samples each and {tts,stop},
\* with K >= 1 and 44 + K*960*2 below the flush threshold, it has sent exactly
\* one binary frame to the client; that frame is 44 + 2*K*960 bytes long, its
\* bytes[4:8] denote 2*K*960+36 and its bytes[40:44] denote 2*K*960.
C1_OneContainerPerUtterance ==
    \A c \in Conns :
        LET s == scen[c] IN
        (s.phase = "closed" /\ s.K >= 1 /\ s.K * 960 * 2 < 32000) =>
            /\ s.bin = 1
            /\ BufLen(s.frame) = 44 + 2 * s.K * 960
            /\ FromLE(Slice(s.frame, 4, 8)) = 2 * s.K * 960 + 36
            /\ FromLE(Slice(s.frame, 40, 44)) = 2 * s.K * 960

C1_Witness ==
    /\ scen[1].phase = "closed" /\ scen[1].K = 16 /\ scen[1].bin = 1
    /\ inpc[1] = "recv229"

\* a step in which the inbound pump of c takes a decoded frame
DecodedStep(c) ==
    /\ upTaken'[c] = upTaken[c] + 1
    /\ inMsg'[c].kind = "bin" /\ inMsg'[c].outcome = "pcm"

\* C2: a step that appends a decoded frame and leaves the container buffer at
\* 44 + 32000 bytes or more calls send with the buffer, to the client, as one
\* binary frame whose two length fields denote 2*counter+36 and 2*counter;
\* when the pump goes on from that send to its next frame the buffer is
\* empty, the counter 0 and the first-audio flag true; and a decoded frame
\* appended to an empty buffer puts a new 44-byte header in front.
C2_PeriodicFlush ==
    [][\A c \in Conns :
        /\ (DecodedStep(c) /\ BufLen(audio_buffer') >= 44 + 32000) =>
              /\ inpc'[c] = "send296"
              /\ inSent'[c] = <<SendCall("client", "binary", audio_buffer')>>
              /\ FromLE(Slice(audio_buffer', 4, 8)) = 2 * total_samples' + 36
              /\ FromLE(Slice(audio_buffer', 40, 44)) = 2 * total_samples'
        /\ (DecodedStep(c) /\ BufLen(audio_buffer') < 44 + 32000) =>
              inpc'[c] = "recv229" /\ inSent'[c] = <<>>
        /\ (inpc[c] = "send296" /\ inpc'[c] = "recv229") =>
              /\ audio_buffer' = <<>> /\ total_samples' = 0 /\ is_first_audio' = TRUE
        /\ (DecodedStep(c) /\ audio_buffer = <<>> /\ is_first_audio) =>
              /\ audio_buffer'[1].kind = "bytes"
              /\ Len(audio_buffer'[1].bytes) = 44
              /\ BufLen(audio_buffer') = 44 + 2 * upFrame[c]
    ]_vars

\* C3: whenever the outbound pump waits for the next client frame and the
\* binary frames taken since the chunker was last empty (no reset or
\* getLastData since) add up to a multiple of 960 samples, the pump has made
\* total/960 encode invocations and the chunks the chunker emitted are, in
\* order, exactly the samples received.
C3_ChunkerExact ==
    \A c \in Conns :
        LET total == clNext[c] - epoch[c].from IN
        (outpc[c] = "recv310" /\ total % 960 = 0) =>
            /\ epoch[c].calls = total \div 960
            /\ epoch[c].emitted = IF total = 0 THEN <<>> ELSE <<Run(c, epoch[c].from, total)>>

\* a step in which the outbound pump of c takes the text frame m
ClientTextStep(c, m) ==
    /\ clTaken'[c] = clTaken[c] + 1
    /\ outMsg'[c] = TextMsg(m)

\* C4: the step that takes getLastData with N pending samples, 0 < N < 960,
\* makes one encode call, on exactly the pending samples, and empties the
\* pending buffer; the next send call of the pump, made without a further
\* encode call, is the {type: lastData} text to the client; and when that
\* send has returned the pending buffer is empty.
C4_GetLastData ==
    [][\A c \in Conns :
        /\ (ClientTextStep(c, ClGetLast) /\ RunsLen(ap_buffer) > 0 /\ RunsLen(ap_buffer) < 960) =>
              /\ encCalls'[c] = <<Pcm16(ap_buffer)>>
              /\ ap_buffer' = <<>>
              /\ \/ /\ outpc'[c] = "send322"
                    /\ outSent'[c] = <<SendCall("server", "binary", Opus(Pcm16(ap_buffer)))>>
                 \/ /\ outpc'[c] = "send324"
                    /\ outSent'[c] = <<SendCall("client", "text", LastDataText)>>
        /\ (outpc[c] = "send322" /\ outpc'[c] # "send322" /\ outLast'[c] = "ok") =>
              /\ outpc'[c] = "send324"
              /\ Len(outSent'[c]) = 2
              /\ outSent'[c][2] = SendCall("client", "text", LastDataText)
              /\ encCalls'[c] = encCalls[c]
              /\ ap_buffer' = ap_buffer
        /\ (outpc[c] = "send324" /\ outpc'[c] # "send324" /\ outLast'[c] = "ok") =>
              /\ outpc'[c] = "recv310"
              /\ ap_buffer' = <<>>
    ]_vars

\* the remainder of 480 samples was encoded and sent, the acknowledgement is
\* on its way to the client
C4_Witness ==
    /\ outpc[1] = "send324" /\ outMsg[1] = TextMsg(ClGetLast)
    /\ encCalls[1] = <<Pcm16(<<Run(1, 0, 480)>>)>>
    /\ Len(outSent[1]) = 2 /\ outSent[1][1].st = "ok"
    /\ ap_buffer = <<>>

\* C5: the step that takes a reset text from the client leaves the chunker's
\* pending buffer empty, makes no send call and no encode call, and changes
\* neither the container buffer, the sample counter, the first-audio flag,
\* the decoder, any socket, nor anything of the inbound pumps.
C5_ResetOnlyChunker ==
    [][\A c \in Conns :
        ClientTextStep(c, ClReset) =>
            /\ ap_buffer' = <<>>
            /\ outpc'[c] = "recv310"
            /\ outSent'[c] = <<>> /\ encCalls'[c] = <<>> /\ chunks' = chunks
            /\ audio_buffer' = audio_buffer
            /\ total_samples' = total_samples
            /\ is_first_audio' = is_first_audio
            /\ decoder' = decoder /\ decoders_made' = decoders_made
            /\ inpc' = inpc /\ inSent' = inSent /\ inMsg' = inMsg
            /\ clientWs' = clientWs /\ serverWs' = serverWs /\ hpc' = hpc
    ]_vars

\* a reset was the first frame taken, with sixteen frames in the container
\* buffer and half a chunk pending before it
C5_Witness ==
    /\ left = MaxPairFrames - 1
    /\ clTaken[1] = 1 /\ outMsg[1] = TextMsg(ClReset) /\ outpc[1] = "recv310"
    /\ ap_buffer = <<>>
    /\ audio_buffer = Streamed(EarlierFrames)
    /\ total_samples = EarlierFrames * FrameSamples

\* a step in which the inbound pump of c takes a text frame
UpstreamTextStep(c) ==
    /\ upTaken'[c] = upTaken[c] + 1
    /\ inMsg'[c].kind = "text"

SessionState == <<audio_buffer, is_first_audio, total_samples, decoder, ap_buffer>>

\* C6: the step that takes a text frame that is no JSON makes one send call,
\* of the same text, to the opposite peer (upstream text to the client, client
\* text to the upstream) and changes none of pending buffer, container buffer,
\* sample counter, first-audio flag and decoder; when that send has returned
\* the pump waits for its next frame, again with none of them changed.
C6_MalformedForwarded ==
    [][\A c \in Conns :
        /\ (UpstreamTextStep(c) /\ json_loads(inMsg'[c].text).err) =>
              /\ inpc'[c] = "send269"
              /\ inSent'[c] = <<SendCall("client", "text", inMsg'[c].text)>>
              /\ SessionState' = SessionState
        /\ (inpc[c] = "send269" /\ inpc'[c] # "send269" /\ inLast'[c] = "ok") =>
              /\ inpc'[c] = "recv229"
              /\ SessionState' = SessionState
        /\ (\E m \in ClTexts : ClientTextStep(c, m) /\ json_loads(m).err) =>
              /\ outpc'[c] = "send328"
              /\ outSent'[c] = <<SendCall("server", "text", outMsg'[c].text)>>
              /\ SessionState' = SessionState
        /\ (outpc[c] = "send328" /\ outpc'[c] # "send328" /\ outLast'[c] = "ok") =>
              /\ outpc'[c] = "recv310"
              /\ SessionState' = SessionState
    ]_vars

\* one bridge has forwarded a malformed text in each direction and goes on
C6_Witness ==
    /\ inMsg[1] = TextMsg(UpBad) /\ inLast[1] = "ok" /\ inpc[1] = "recv229"
    /\ outMsg[1] = TextMsg(ClBad) /\ outLast[1] = "ok" /\ outpc[1] = "recv310"

\* the handler of c has returned without an upstream connection
ConnectFailed(c) == hpc[c] \in {"returned", "closed"} /\ serverWs[c] = "none"

\* C7: while no upstream connection was made for a client, neither pump has
\* started and the handler is before the connect of line 204, awaits it, or
\* has returned; once it has returned without an upstream connection it stays
\* so (no connection is made for that client later); and a client whose
\* handler awaits the connect gets an upstream connection or is eventually
\* closed.
C7_ConnectFailureEnds ==
    \A c \in Conns :
        /\ [](serverWs[c] = "none" =>
                 /\ inpc[c] = "idle" /\ outpc[c] = "idle"
                 /\ upTaken[c] = 0 /\ clTaken[c] = 0
                 /\ hpc[c] \in {"idle", "connect204", "returned", "closed"})
        /\ [](ConnectFailed(c) => []ConnectFailed(c))
        /\ (hpc[c] = "connect204") ~> (serverWs[c] = "open" \/ clientWs[c] = "closed")
        /\ ConnectFailed(c) ~> (clientWs[c] = "closed")

\* the connect failed and the client was closed, no pump ever started
C7_Witness ==
    /\ hpc[1] = "closed" /\ clientWs[1] = "closed" /\ serverWs[1] = "none"
    /\ inpc[1] = "idle" /\ outpc[1] = "idle"

\* C8: no container sent to the client of a connection holds samples decoded
\* from the upstream of another connection that is bridged at the same time.
C8_SessionsIsolated ==
    \A c \in Conns :
        \A i \in 1..Len(inSent[c]) :
            inSent[c][i].kind = "binary" =>
                \A j \in 1..Len(inSent[c][i].data) :
                    inSent[c][i].data[j].kind = "pcm" =>
                        inSent[c][i].data[j].src \notin Conns \ {c}

\* C9: the step that takes a client text that parses as JSON and is neither a
\* reset nor a getLastData message, an object or not, makes one send call, of
\* the same text, to the upstream, and the pump goes on.
C9_OtherJsonForwarded ==
    [][\A c \in Conns :
        /\ (\E m \in ClTexts :
               /\ ClientTextStep(c, m)
               /\ ~json_loads(m).err
               /\ json_loads(m).type \notin {"reset", "getLastData"}) =>
              /\ outpc'[c] = "send326"
              /\ outSent'[c] = <<SendCall("server", "text", outMsg'[c].text)>>
        /\ (outpc[c] = "send326" /\ outpc'[c] # "send326" /\ outLast'[c] = "ok") =>
              outpc'[c] = "recv310"
    ]_vars

\* C10: the step that takes an upstream text either calls send with the same
\* text to the client or calls send with the container buffer, which it only
\* does for {tts,start} and {tts,stop}; the step in which that flush is over
\* (for a stop, after the delay) resets the audio state and calls send with
\* the text; and when the send of the text has returned the pump goes on.
C10_UpstreamTextForwarded ==
    [][\A c \in Conns :
        /\ UpstreamTextStep(c) =>
              \/ /\ inpc'[c] \in {"send267", "send269"}
                 /\ inSent'[c] = <<SendCall("client", "text", inMsg'[c].text)>>
              \/ /\ inpc'[c] \in {"send240", "send256"}
                 /\ inMsg'[c].text \in {TtsStart, TtsStop}
                 /\ inSent'[c] = <<SendCall("client", "binary", audio_buffer')>>
        /\ (((inpc[c] = "send240" /\ inLast'[c] = "ok") \/ inpc[c] = "sleep259")
               /\ inpc'[c] # inpc[c]) =>
              /\ inpc'[c] = "send267"
              /\ inSent'[c][Len(inSent'[c])] = SendCall("client", "text", inMsg[c].text)
              /\ Len(inSent'[c]) = 2 /\ inSent'[c][1].st = "ok"
              /\ audio_buffer' = <<>> /\ total_samples' = 0 /\ is_first_audio'
              /\ decoder' # decoder
        /\ (inpc[c] \in {"send267", "send269"} /\ inpc'[c] # inpc[c] /\ inLast'[c] = "ok") =>
              inpc'[c] = "recv229"
    ]_vars

\* the step in which handle_server_messages takes a binary frame that
\* self.decoder.decode raises on
DecodeFailedStep(c) ==
    /\ upTaken'[c] = upTaken[c] + 1
    /\ inMsg'[c].kind = "bin" /\ inMsg'[c].outcome = "error"

\* a step of the loop over the chunks of a client binary frame (337-342): the
\* step that takes the frame, or the one in which the send of 340 returns
ChunkLoopStep(c) ==
    /\ outMsg'[c].kind = "bin" /\ outMsg'[c].outcome = "float"
    /\ \/ clTaken'[c] = clTaken[c] + 1
       \/ /\ outpc[c] = "send340" /\ outLast'[c] = "ok"
          /\ outpc'[c] # "cancelling"
          /\ <<outpc[c], outSent[c]>>' # <<outpc[c], outSent[c]>>

\* the chunks the loop has before the step: those of the frame taken, or
\* those left when the send returns
LoopChunks(c) ==
    IF clTaken'[c] # clTaken[c]
    THEN process_audio(ap_buffer, <<Run(c, clNext[c], outMsg'[c].n)>>).chunks
    ELSE chunks[c]

\* C11: a codec failure on one frame does not end the pump.  The step that
\* takes an upstream binary frame the decoder raises on changes neither the
\* container buffer nor the sample counter, the first-audio flag or the
\* decoder, makes no send call and leaves the pump waiting for the next
\* frame.  In a step of the loop over the chunks of a client binary frame
\* every chunk is either passed to pcm_to_opus or left for the loop, chunks
\* for which pcm_to_opus returned nothing are not sent, the chunk after them
\* that is encoded is sent upstream, and the pump awaits the next frame only
\* when no chunk is left.
C11_CodecFailureDropsFrame ==
    [][\A c \in Conns :
        /\ DecodeFailedStep(c) =>
              /\ UNCHANGED <<audio_buffer, total_samples, is_first_audio, decoder>>
              /\ inSent'[c] = <<>>
              /\ inpc'[c] = "recv229"
        /\ ChunkLoopStep(c) =>
              LET all == LoopChunks(c)
                  tried == epoch'[c].calls - epoch[c].calls
              IN /\ tried \in 0..Len(all)
                 /\ chunks'[c] = SubSeq(all, tried + 1, Len(all))
                 /\ IF outpc'[c] = "send340"
                    THEN /\ tried >= 1
                         /\ outSent'[c][Len(outSent'[c])] =
                                SendCall("server", "binary", Opus(all[tried]))
                         /\ Len(outSent'[c]) =
                                (IF clTaken'[c] # clTaken[c] THEN 0 ELSE Len(outSent[c])) + 1
                    ELSE /\ outpc'[c] = "recv310"
                         /\ tried = Len(all)
    ]_vars

\* the decoder raised on the last upstream frame of a connection and its
\* inbound pump awaits the next one, while its outbound pump sends the second
\* chunk of a client frame after pcm_to_opus returned nothing for the first
C11_Witness ==
    \E c \in Conns :
        /\ inMsg[c] = BinMsg("error", 0) /\ inpc[c] = "recv229"
        /\ outpc[c] = "send340" /\ Len(encCalls[c]) = 2 /\ Len(outSent[c]) = 1
        /\ outSent[c][1].data = Opus(encCalls[c][2])

\* the positions at which a pump awaits a send
InSendSites == {"send240", "send256", "send267", "send269", "send296"}
OutSendSites == {"send322", "send324", "send326", "send328", "send340"}

\* the step in which the send a pump awaits raises
InSendFailedStep(c) ==
    inpc[c] \in InSendSites /\ inpc'[c] # inpc[c] /\ inLast'[c] = "failed"
OutSendFailedStep(c) ==
    outpc[c] \in OutSendSites /\ outpc'[c] # outpc[c] /\ outLast'[c] = "failed"

\* C12: the step in which a send awaited by a pump raises, at any send site,
\* ends that pump, and so does the end of the stream it reads; a pump whose
\* last send raised takes no further frame; and the handler leaves its wait
\* only with both pumps ended or cancelled.
C12_SendFailureEndsPump ==
    [][\A c \in Conns :
        /\ InSendFailedStep(c) => inpc'[c] = "done"
        /\ OutSendFailedStep(c) => outpc'[c] = "done"
        /\ inLast[c] = "failed" => upTaken'[c] = upTaken[c]
        /\ outLast[c] = "failed" => clTaken'[c] = clTaken[c]
        /\ (hpc[c] = "wait212" /\ hpc'[c] # "wait212") =>
              /\ inpc'[c] \in {"done", "cancelling"}
              /\ outpc'[c] \in {"done", "cancelling"}
    ]_vars

\* a step of a pump of connection c: its position, the frames it has taken or
\* the calls it has made change
PumpStep(c) ==
    <<inpc[c], upTaken[c], inSent[c], outpc[c], clTaken[c], outSent[c]>>' #
    <<inpc[c], upTaken[c], inSent[c], outpc[c], clTaken[c], outSent[c]>>

\* the pumps of connection c were never created, or have both finished
\* (returned, or taken their cancellation)
PumpsFinished(c) ==
    \/ inpc[c] = "idle" /\ outpc[c] = "idle"
    \/ inpc[c] \in Ended /\ outpc[c] \in Ended

\* C13: the step that closes the upstream or the client socket of a
\* connection is taken only when both pumps of the connection have finished;
\* and once a socket of the connection is closed no pump of the connection
\* makes a step.
C13_PumpsFinishedBeforeClose ==
    [][\A c \in Conns :
        /\ (serverWs'[c] = "closed" /\ serverWs[c] # "closed") => PumpsFinished(c)
        /\ (clientWs'[c] = "closed" /\ clientWs[c] # "closed") => PumpsFinished(c)
        /\ (serverWs[c] = "closed" \/ clientWs[c] = "closed") => ~PumpStep(c)
    ]_vars

\* the step in which handle_server_messages, handling the text m, reaches the
\* forward of line 267: everything the code does for m before forwarding it
\* is done
BoundaryHandledStep(c, m) ==
    /\ inpc[c] # "send267" /\ inpc'[c] = "send267"
    /\ inMsg'[c] = TextMsg(m)

\* C14: when the inbound pump has handled a {tts,stop}, as when it has handled
\* a {tts,start}, the container buffer is empty, the sample counter is 0, the
\* first-audio flag is true and the decoder is a new one, different from the
\* decoder in use before, whether the buffer held audio or not.
C14_StopResetsLikeStart ==
    [][\A c \in Conns : \A m \in {TtsStart, TtsStop} :
        BoundaryHandledStep(c, m) =>
            /\ audio_buffer' = <<>>
            /\ total_samples' = 0
            /\ is_first_audio'
            /\ decoder' # decoder
            /\ decoder' = decoders_made'
    ]_vars

\* the step in which the send of the periodic flush (296) returns
FlushDoneStep(c) ==
    inpc[c] = "send296" /\ inpc'[c] # inpc[c] /\ inLast'[c] = "ok"

\* C15: a step changes the decoder only if in it an inbound pump has handled
\* a {tts,start} or a {tts,stop} up to the forward of the text; the step in
\* which the periodic flush is over empties the buffer, zeroes the counter,
\* sets the first-audio flag and keeps the decoder; and no step that takes a
\* binary frame, a text other than the two boundaries, or any client frame,
\* and no step of the outbound pump, changes the decoder.
C15_DecoderOnlyAtBoundary ==
    [][/\ decoder' # decoder =>
              \E c \in Conns : \E m \in {TtsStart, TtsStop} : BoundaryHandledStep(c, m)
       /\ \A c \in Conns :
            /\ FlushDoneStep(c) =>
                  /\ audio_buffer' = <<>> /\ total_samples' = 0 /\ is_first_audio'
                  /\ decoder' = decoder
            /\ (upTaken'[c] # upTaken[c] /\ inMsg'[c].text \notin {TtsStart, TtsStop}) =>
                  decoder' = decoder
            /\ (inpc[c] = "send296" /\ inpc'[c] # inpc[c]) => decoder' = decoder
            /\ <<outpc[c], clTaken[c], outSent[c]>>' # <<outpc[c], clTaken[c], outSent[c]>> =>
                  decoder' = decoder
    ]_vars

\* a periodic flush is over, the buffer is empty again and the decoder is
\* still the one the proxy was constructed with
C15_Witness ==
    \E c \in Conns :
        /\ inMsg[c] = BinMsg("pcm", FrameSamples) /\ inpc[c] = "recv229" /\ inLast[c] = "ok"
        /\ audio_buffer = <<>> /\ total_samples = 0 /\ is_first_audio
        /\ decoder = 1 /\ decoders_made = 1

\* the step in which proxy_handler creates the two pumps of a connection
\* (208-209)
PumpsStartStep(c) == hpc[c] = "connect204" /\ hpc'[c] = "wait212"

\* C16: at the moment the pumps of a new connection start the container
\* buffer is empty, the sample counter is 0, the first-audio flag is true and
\* the pending buffer of the chunker is empty.
C16_FreshSessionState ==
    [][\A c \in Conns :
        PumpsStartStep(c) =>
            /\ audio_buffer' = <<>>
            /\ total_samples' = 0
            /\ is_first_audio'
            /\ ap_buffer' = <<>>
    ]_vars

\* the bytes of a 44-byte header outside its two length fields (4:8, 40:44)
FixedFields(h) == [i \in (1..Len(h)) \ ((5..8) \cup (41..44)) |-> h[i]]

\* a buffer that begins with the fixed header and holds sample data after it
ValidPrefixed(b) ==
    /\ Len(b) > 1
    /\ b[1].kind = "bytes" /\ Len(b[1].bytes) = HeaderSize
    /\ FixedFields(b[1].bytes) = FixedFields(create_wav_header(0))
    /\ \A i \in 2..Len(b) : b[i].kind = "pcm"
    /\ BufLen(b) > HeaderSize

\* the positions at which handle_server_messages is suspended
InWaiting == {"recv229", "sleep259"} \cup InSendSites

\* the step in which handle_server_messages calls send with the container
\* buffer (240, 256, 296)
ContainerSentStep(c) ==
    inpc'[c] \in {"send240", "send256", "send296"} /\ inpc'[c] # inpc[c]

\* the container buffer before the patch of that step: the buffer the frame
\* was appended to (285), or the buffer the boundary found (235, 250)
BeforePatch(c) ==
    IF inpc'[c] = "send296" THEN Appended(c, inMsg'[c].n) ELSE audio_buffer

\* C17: in one session, wherever the inbound pump is suspended the container
\* buffer is either empty, with counter 0 and the first-audio flag set, or
\* begins with the 44-byte header, is longer than 44 bytes, the flag is not
\* set and its length is 44 + 2*counter.  Every binary frame sent to the
\* client is such a non-empty container, its total-size field is its payload
\* length + 36 and its payload-size field its payload length; when it is sent
\* the payload length is 2*counter, and the patch has changed nothing but the
\* two length fields.
C17_ContainerWellFormed ==
    /\ [](\A c \in Conns :
            /\ inpc[c] \in InWaiting =>
                  \/ audio_buffer = <<>> /\ total_samples = 0 /\ is_first_audio
                  \/ /\ ValidPrefixed(audio_buffer) /\ ~is_first_audio
                     /\ BufLen(audio_buffer) = HeaderSize + 2 * total_samples
            /\ \A i \in 1..Len(inSent[c]) :
                  inSent[c][i].kind = "binary" =>
                      LET sent == inSent[c][i].data IN
                      /\ ValidPrefixed(sent)
                      /\ FromLE(Slice(sent, 4, 8)) = BufLen(sent) - HeaderSize + 36
                      /\ FromLE(Slice(sent, 40, 44)) = BufLen(sent) - HeaderSize)
    /\ [][\A c \in Conns :
            ContainerSentStep(c) =>
                LET sent == inSent'[c][Len(inSent'[c])].data IN
                /\ sent = audio_buffer'
                /\ BufLen(sent) - HeaderSize = 2 * total_samples'
                /\ Tail(sent) = Tail(BeforePatch(c))
                /\ FixedFields(sent[1].bytes) = FixedFields(BeforePatch(c)[1].bytes)
      ]_vars

\* the send of a periodic flush raised, the frames went on and the buffer,
\* now beyond the threshold by more than a frame, is flushed again
C17_Witness ==
    /\ inpc[1] = "send296"
    /\ BufLen(audio_buffer) > FlushSize + 2 * FrameSamples
    /\ inSent[1][1].data = audio_buffer

\* the step in which handle_client_messages takes a frame
ClientFrameStep(c) == clTaken'[c] = clTaken[c] + 1

\* C18: the pending buffer of the chunker always holds fewer than 960
\* samples.  It changes only in a step that takes a client frame: a binary
\* frame of samples, after which it is the end of (pending + frame) left when
\* a whole number of 960-sample chunks was cut from the front; getLastData or
\* reset, after which it is empty.  A step that takes any other text makes no
\* pcm_to_opus call and sends no binary frame, and no step gives pcm_to_opus
\* a chunk that is not 960 samples long except the getLastData drain.
C18_PendingBelowChunk ==
    /\ [](RunsLen(ap_buffer) < buffer_size)
    /\ [][/\ ap_buffer' # ap_buffer =>
                \E c \in Conns :
                    /\ ClientFrameStep(c)
                    /\ \/ outMsg'[c] \in {TextMsg(ClReset), TextMsg(ClGetLast)} /\ ap_buffer' = <<>>
                       \/ /\ outMsg'[c].kind = "bin" /\ outMsg'[c].outcome = "float"
                          /\ LET all == RunsCat(ap_buffer, <<Run(c, clNext[c], outMsg'[c].n)>>)
                                 cut == RunsLen(all) - RunsLen(ap_buffer')
                             IN /\ cut >= 0 /\ cut % buffer_size = 0
                                /\ ap_buffer' = RunsDrop(all, cut)
       /\ \A c \in Conns :
            /\ (ClientFrameStep(c) /\ outMsg'[c].kind = "text"
                  /\ outMsg'[c].text # ClGetLast) =>
                  /\ encCalls'[c] = <<>>
                  /\ \A i \in 1..Len(outSent'[c]) : outSent'[c][i].kind = "text"
                  /\ (outMsg'[c].text # ClReset => ap_buffer' = ap_buffer)
            /\ outMsg'[c] # TextMsg(ClGetLast) =>
                  \A i \in 1..Len(encCalls'[c]) :
                      RunsLen(encCalls'[c][i].samples) = buffer_size
      ]_vars

\* half a chunk is pending, and still is when the pump has since handled a
\* text that is neither reset nor getLastData
C18_Witness ==
    /\ outMsg[1] = TextMsg(ClOther) /\ outpc[1] = "recv310" /\ outLast[1] = "ok"
    /\ clNext[1] = 480
    /\ ap_buffer = <<Run(1, 0, 480)>>

\* the step in which handle_server_messages takes a frame
UpstreamFrameStep(c) == upTaken'[c] = upTaken[c] + 1

\* the calls of a log are awaited one after the other: none but the last can
\* be pending, and the last is pending exactly at a send site
Sequential(log, atSend) ==
    /\ \A i \in 1..(Len(log) - 1) : log[i].st # "pending"
    /\ atSend => (log # <<>> /\ log[Len(log)].st = "pending")
    /\ ~atSend => (log = <<>> \/ log[Len(log)].st # "pending")

\* the sample data of one source appears in s in the order of the samples
SamplesInOrder(s) ==
    \A i, j \in 1..Len(s) :
        (i < j /\ s[i].n > 0 /\ s[j].n > 0 /\ s[i].src = s[j].src) =>
            s[i].from + s[i].n <= s[j].from

RECURSIVE SentSamples(_)
\* the samples of the encoded chunks a log of calls sends upstream, in the
\* order of the calls
SentSamples(log) ==
    IF log = <<>> THEN <<>>
    ELSE (IF log[1].kind = "binary" THEN log[1].data.samples ELSE <<>>)
           \o SentSamples(Tail(log))

\* the calls a step adds to a log
NewCalls(old, new, taken) ==
    IF taken THEN new ELSE SubSeq(new, Len(old) + 1, Len(new))

\* C19: a pump takes a frame only while it waits at its `async for`, with no
\* call of the previous frame outstanding and, for the outbound pump, no
\* chunk of it left; the sends of a frame are awaited one after the other;
\* every send call a step makes is for the frame being handled (its text, the
\* container buffer, a chunk cut for it, the acknowledgement of a
\* getLastData); and the samples in a container, and in the chunks sent for a
\* frame, are in the order of the samples of their source.
C19_ArrivalOrder ==
    /\ [](\A c \in Conns :
            /\ inpc[c] \notin {"cancelling", "cancelled"} =>
                  Sequential(inSent[c], inpc[c] \in InSendSites)
            /\ outpc[c] \notin {"cancelling", "cancelled"} =>
                  Sequential(outSent[c], outpc[c] \in OutSendSites)
            /\ \A i \in 1..Len(inSent[c]) :
                  inSent[c][i].kind = "binary" => SamplesInOrder(inSent[c][i].data)
            /\ SamplesInOrder(SentSamples(outSent[c]))
            /\ SamplesInOrder(SentSamples(outSent[c]) \o AllSamples(chunks[c]) \o ap_buffer))
    /\ [][\A c \in Conns :
            /\ UpstreamFrameStep(c) => (inpc[c] = "recv229" /\ inSent[c] = <<>>)
            /\ ClientFrameStep(c) =>
                  (outpc[c] = "recv310" /\ outSent[c] = <<>> /\ chunks[c] = <<>>)
            /\ LET new == NewCalls(inSent[c], inSent'[c], UpstreamFrameStep(c)) IN
               \A i \in 1..Len(new) :
                   /\ new[i].to = "client"
                   /\ new[i].kind = "text" =>
                         (inMsg'[c].kind = "text" /\ new[i].data = inMsg'[c].text)
                   /\ new[i].kind = "binary" => new[i].data = audio_buffer'
            /\ LET new == NewCalls(outSent[c], outSent'[c], ClientFrameStep(c)) IN
               \A i \in 1..Len(new) :
                   /\ (new[i].kind = "text" /\ new[i].to = "server") =>
                         (outMsg'[c].kind = "text" /\ new[i].data = outMsg'[c].text)
                   /\ (new[i].kind = "text" /\ new[i].to = "client") =>
                         (outMsg'[c] = TextMsg(ClGetLast) /\ new[i].data = LastDataText
                            /\ i = Len(new))
                   /\ new[i].kind = "binary" =>
                         /\ new[i].to = "server"
                         /\ \/ outMsg'[c] = TextMsg(ClGetLast)
                            \/ /\ outMsg'[c].kind = "bin"
                               /\ \E k \in 1..Len(LoopChunks(c)) :
                                      new[i].data = Opus(LoopChunks(c)[k])
      ]_vars

\* the outbound pump of a connection has taken two frames of 960 samples and
\* is sending the chunk of the second one, the send for the first one over
C19_Witness ==
    \E c \in Conns :
        /\ clTaken[c] = 2 /\ outpc[c] = "send340"
        /\ outSent[c] = <<SendCall("server", "binary", Opus(Pcm16(<<Run(c, 960, 960)>>)))>>

\* a step of handle_server_messages / of handle_client_messages of
\* connection c
InPumpStep(c) ==
    <<inpc[c], upTaken[c], inSent[c]>>' # <<inpc[c], upTaken[c], inSent[c]>>
OutPumpStep(c) ==
    <<outpc[c], clTaken[c], outSent[c], chunks[c]>>' #
    <<outpc[c], clTaken[c], outSent[c], chunks[c]>>

\* C20: with both pumps of every connection running in any interleaving, no
\* step of an outbound pump changes the container buffer, the sample counter,
\* the first-audio flag or the decoder, and what it sends is text or encoded
\* client samples, never the container; no step of an inbound pump changes
\* the pending buffer of the chunker, and every binary frame it sends is the
\* container buffer of that moment; and the two owned states change in steps
\* of their owners only.
C20_OwnershipSplit ==
    [][/\ \A c \in Conns :
            /\ OutPumpStep(c) =>
                  /\ UNCHANGED <<audio_buffer, total_samples, is_first_audio, decoder>>
                  /\ \A i \in 1..Len(outSent'[c]) :
                        outSent'[c][i].kind = "binary" =>
                            /\ outSent'[c][i].data.fmt = "opus"
                            /\ \A j \in 1..Len(outSent'[c][i].data.samples) :
                                  outSent'[c][i].data.samples[j] \in
                                      [src : Conns \cup {0}, from : Nat, n : Nat]
            /\ InPumpStep(c) =>
                  /\ UNCHANGED ap_buffer
                  /\ LET new == NewCalls(inSent[c], inSent'[c], UpstreamFrameStep(c)) IN
                     \A i \in 1..Len(new) :
                         new[i].kind = "binary" => new[i].data = audio_buffer'
       /\ <<audio_buffer, total_samples, is_first_audio, decoder>>' #
              <<audio_buffer, total_samples, is_first_audio, decoder>> =>
                  \E c \in Conns : InPumpStep(c)
       /\ ap_buffer' # ap_buffer => \E c \in Conns : OutPumpStep(c)
    ]_vars

\* both pumps of a connection are in the middle of a frame at the same time:
\* the periodic flush is awaited with the container buffer full while a chunk
\* is being sent upstream and half a chunk is pending
C20_Witness ==
    \E c \in Conns :
        /\ inpc[c] = "send296" /\ outpc[c] = "send340"
        /\ BufLen(audio_buffer) >= FlushSize
        /\ ap_buffer # <<>>

\* a pump of the bridge of c has returned (its stream ended, or an exception
\* reached the handler of 304 / 347) while proxy_handler waits at 212
PumpEnded(c) == hpc[c] = "wait212" /\ (inpc[c] = "done" \/ outpc[c] = "done")

\* the bridge of c is over: both pumps have stopped, both sockets are closed
\* and proxy_handler has returned
BridgeOver(c) ==
    /\ inpc[c] \in Ended /\ outpc[c] \in Ended
    /\ serverWs[c] = "closed" /\ clientWs[c] = "closed"
    /\ hpc[c] = "closed"

\* C21: once a pump of a bridge has ended, whether its stream ended or a
\* failure ended it, eventually both pumps have stopped, both sockets are
\* closed and the handler has returned; a bridge that is over stays over, and
\* an upstream socket that is closed is never open again (no reconnection).
C21_BridgeTerminates ==
    \A c \in Conns :
        /\ PumpEnded(c) ~> BridgeOver(c)
        /\ (PumpEnded(c) /\ (inLast[c] = "failed" \/ outLast[c] = "failed")) ~> BridgeOver(c)
        /\ [](BridgeOver(c) => []BridgeOver(c))
        /\ [](serverWs[c] = "closed" => [](serverWs[c] = "closed"))

\* the forward of an upstream text raised, the inbound pump ended by it, the
\* outbound pump was cancelled and the bridge is over
C21_Witness ==
    \E c \in Conns :
        /\ BridgeOver(c)
        /\ inpc[c] = "done" /\ inLast[c] = "failed" /\ outpc[c] = "cancelled"

\* the calls of a log that send the text m to `to`
TextCalls(log, to, m) ==
    {i \in 1..Len(log) : log[i].to = to /\ log[i].kind = "text" /\ log[i].data = m}

\* the lastData acknowledgement as a send call
AckCall == SendCall("client", "text", LastDataText)

\* C22: the step that takes a getLastData empties the pending buffer, makes
\* no encode call if it was empty and one, on the remainder, otherwise, and
\* goes on to send the encoded remainder upstream or, if there is none (the
\* buffer was empty or the encode returned nothing), the acknowledgement.
\* While the message is handled its text is never sent upstream and the
\* pending buffer stays empty; the acknowledgement is called once, as the
\* last call, after the send of the remainder has returned; and when the send
\* of the acknowledgement has returned the pump awaits the next frame.
C22_GetLastDataAcknowledged ==
    /\ [](\A c \in Conns :
            (outMsg[c] = TextMsg(ClGetLast) /\ outpc[c] \in {"send322", "send324"}) =>
                /\ ap_buffer = <<>>
                /\ TextCalls(outSent[c], "server", ClGetLast) = {}
                /\ Len(encCalls[c]) <= 1
                /\ outpc[c] = "send322" =>
                      /\ Len(encCalls[c]) = 1
                      /\ outSent[c] = <<SendCall("server", "binary", Opus(encCalls[c][1]))>>
                /\ outpc[c] = "send324" =>
                      /\ TextCalls(outSent[c], "client", LastDataText) = {Len(outSent[c])}
                      /\ outSent[c][Len(outSent[c])] = AckCall
                      /\ \/ outSent[c] = <<AckCall>>
                         \/ /\ Len(encCalls[c]) = 1
                            /\ outSent[c] =
                                 <<[SendCall("server", "binary", Opus(encCalls[c][1]))
                                       EXCEPT !.st = "ok"], AckCall>>)
    /\ [][\A c \in Conns :
            /\ ClientTextStep(c, ClGetLast) =>
                  /\ ap_buffer' = <<>>
                  /\ outpc'[c] \in {"send322", "send324"}
                  /\ encCalls'[c] = IF ap_buffer = <<>> THEN <<>> ELSE <<Pcm16(ap_buffer)>>
            /\ (outMsg[c] = TextMsg(ClGetLast) /\ outLast'[c] = "ok"
                  /\ outpc[c] = "send322" /\ outpc'[c] # outpc[c]) =>
                  outpc'[c] = "send324"
            /\ (outMsg[c] = TextMsg(ClGetLast) /\ outLast'[c] = "ok"
                  /\ outpc[c] = "send324" /\ outpc'[c] # outpc[c]) =>
                  (outpc'[c] = "recv310" /\ ap_buffer' = <<>>)
      ]_vars

\* the encode of a remainder of 480 samples returned nothing: one encode
\* call was made, nothing was sent upstream and the acknowledgement is on its
\* way, the pending buffer empty
C22_Witness ==
    /\ outpc[1] = "send324" /\ outMsg[1] = TextMsg(ClGetLast)
    /\ encCalls[1] = <<Pcm16(<<Run(1, 0, 480)>>)>>
    /\ outSent[1] = <<AckCall>>
    /\ ap_buffer = <<>>

\* the PCM of every frame decoded on connection c so far, in arrival order
Decoded(c) == IF upNext[c] = 0 THEN <<>> ELSE <<PcmSeg(c, 0, upNext[c])>>

\* the inbound pump of c has handled a {tts,start} or {tts,stop} to the end:
\* the forward of line 267 has returned and the next frame is awaited
BoundaryDone(c) ==
    /\ inMsg[c] \in {TextMsg(TtsStart), TextMsg(TtsStop)}
    /\ inpc[c] = "recv229" /\ inLast[c] = "ok"

\* C23: in one session in which no send to the client has raised, whenever
\* the inbound pump has handled a {tts,start} or a {tts,stop} the payloads of
\* the containers sent to the client, concatenated in the order of the sends,
\* are the PCM of all frames decoded so far in the order of their arrival;
\* and whenever the pump awaits a frame, those payloads followed by the data
\* in the container buffer are that PCM.
C23_NoAudioLost ==
    \A c \in Conns :
        ~delivered[c].failed =>
            /\ BoundaryDone(c) => delivered[c].payload = Decoded(c)
            /\ inpc[c] = "recv229" =>
                  ExtendAll(delivered[c].payload, Payload(audio_buffer)) = Decoded(c)

\* a stop has been handled after 18 frames of 960 samples, of which the 17th
\* caused a periodic flush: two containers were sent and no send raised
C23_Witness ==
    /\ BoundaryDone(1) /\ inMsg[1] = TextMsg(TtsStop)
    /\ ~delivered[1].failed
    /\ upNext[1] = 18 * FrameSamples
    /\ delivered[1].payload = <<PcmSeg(1, 0, 18 * FrameSamples)>>
    /\ decoders_made = 2

====
